---- MODULE Spec2Model ----
(***************************************************************************)
(* cgos-rs: safe access layer over the congatec CGOS hardware-management   *)
(* interface.  The model covers the ownership chain                        *)
(*   Congatec (library context) -> Board (handle) -> accessors             *)
(* and the conversion layer of the accessors.                              *)
(*                                                                         *)
(* Rust's borrow checker is modelled by guards: a value that is borrowed   *)
(* for a lifetime cannot be dropped (moved) while a value carrying that    *)
(* lifetime is still live.  A panic (assert_ne!, unwrap) starts unwinding, *)
(* during which only destructors run; a second panic while unwinding       *)
(* aborts the process.                                                     *)
(*                                                                         *)
(* Machine integers are little-endian sequences of 16-bit limbs:           *)
(* u32 = 2 limbs, usize (64-bit target) = 4 limbs.                         *)
(***************************************************************************)
EXTENDS Integers, Sequences, FiniteSets, TLC

VARIABLES
    libs,    \* the live Congatec values (ids)
    libInit, \* raw interface: CgosLibInitialize calls not yet undone
    boards,  \* the live Board values: records [lib, handle]
    table,   \* raw interface: the set of open board handles
    accs,    \* the live accessor values: records [kind, owner, handle, index]
    erase,   \* raw interface: the state of the erase of the storage area
    status,  \* "running" | "unwinding" | "aborted"
    last     \* the last operation: what was called and what came back

vars == <<libs, libInit, boards, table, accs, erase, status, last>>

----------------------------------------------------------------------------
(* Bounds of the model *)

MaxLibs == 2
MaxBoards == 2
MaxHandles == 2
MaxAccs == 1
MaxBusses == 2

LibIds == 1..MaxLibs
Handles == 1..MaxHandles

----------------------------------------------------------------------------
(* Machine integers *)

Limb == 2^16

U32(hi, lo) == <<lo, hi>>
Usize(w3, w2, hi, lo) == <<lo, hi, w2, w3>>

\* `x as usize` for x: u32 (zero extension)
AsUsize(x) == <<x[1], x[2], 0, 0>>

\* `x as u32` for x: usize (truncation)
AsU32(x) == <<x[1], x[2]>>

\* usize -> u32 via TryFrom: fails when the value does not fit
FitsU32(x) == x[3] = 0 /\ x[4] = 0

\* a < b for two integers of the same width
RECURSIVE LtFrom(_, _, _)
LtFrom(a, b, i) ==
    IF i = 0 THEN FALSE
    ELSE IF a[i] # b[i] THEN a[i] < b[i]
    ELSE LtFrom(a, b, i - 1)

Lt(a, b) == LtFrom(a, b, Len(a))
Gt(a, b) == Lt(b, a)

IsZero(a) == \A i \in 1..Len(a) : a[i] = 0

\* a - 1 for a # 0 (borrow through the zero limbs)
RECURSIVE DecFrom(_, _)
DecFrom(a, i) ==
    IF a[i] > 0 THEN [a EXCEPT ![i] = a[i] - 1]
    ELSE DecFrom([a EXCEPT ![i] = Limb - 1], i + 1)

\* usize::saturating_sub(1)
SaturatingSub1(a) == IF IsZero(a) THEN a ELSE DecFrom(a, 1)

\* bitwise operations on one limb
RECURSIVE BitAnd16(_, _)
BitAnd16(a, b) ==
    IF a = 0 \/ b = 0 THEN 0
    ELSE (a % 2) * (b % 2) + 2 * BitAnd16(a \div 2, b \div 2)

RECURSIVE BitOr16(_, _)
BitOr16(a, b) ==
    IF a = 0 THEN b
    ELSE IF b = 0 THEN a
    ELSE (IF a % 2 = 1 \/ b % 2 = 1 THEN 1 ELSE 0) + 2 * BitOr16(a \div 2, b \div 2)

\* x & y, x | y for u32
And32(x, y) == <<BitAnd16(x[1], y[1]), BitAnd16(x[2], y[2])>>
Or32(x, y) == <<BitOr16(x[1], y[1]), BitOr16(x[2], y[2])>>


----------------------------------------------------------------------------
(* Values *)

NoOwner == 0

\* return codes of the raw interface: zero is failure, nonzero success
RetCodes == {0, 1}

NoValue == <<>>
Returned(v) == [tag |-> "Ok", val |-> v]
Failed(e) == [tag |-> "Err", val |-> e]
Panic == [tag |-> "Panic", val |-> NoValue]

\* the record of an operation: the raw function it called (if any) with
\* which board handle, whether that handle was open, the raw return code,
\* the operation's input and what the caller got
Call(op, fn, handle, ret, arg, res) ==
    [op |-> op, fn |-> fn, handle |-> handle, wasOpen |-> handle \in table,
     ret |-> ret, arg |-> arg, res |-> res]

\* a panic starts unwinding; a panic while unwinding aborts
AfterPanic == IF status = "running" THEN "unwinding" ELSE "aborted"

\* assert_ne!(ret, 0)
AssertNe(ret) == ret # 0

Init ==
    /\ libs = {}
    /\ libInit = 0
    /\ boards = {}
    /\ table = {}
    /\ accs = {}
    /\ erase = [target |-> [handle |-> 0, unit |-> U32(0, 0), offset |-> U32(0, 0),
                           len |-> U32(0, 0)],
                phase |-> "idle", reported |-> "none"]
    /\ status = "running"
    /\ last = Call("start", "none", 0, 1, NoValue, Returned(NoValue))

----------------------------------------------------------------------------
(* Library context: congatec.rs *)

\* Congatec::new
CongatecNew(c) ==
    /\ status = "running"
    /\ c \notin libs
    /\ \E ret \in RetCodes :
        /\ last' = Call("Congatec::new", "CgosLibInitialize", 0, ret, c,
                        IF AssertNe(ret) THEN Returned(NoValue) ELSE Panic)
        /\ IF AssertNe(ret)
           THEN /\ libs' = libs \cup {c}
                /\ libInit' = libInit + 1
                /\ status' = status
           ELSE /\ status' = AfterPanic
                /\ UNCHANGED <<libs, libInit>>
    /\ UNCHANGED <<boards, table, accs, erase>>

\* (mutant) a Board that carries no lifetime of the context
BoardBorrowsNoLibrary(bd, c) == FALSE

\* get_board / get_board_from_name return Board<'library> for &'library self:
\* the Board holds a borrow of the Congatec it was opened from
BoardBorrowsLibrary(bd, c) == bd.lib = c

\* impl Drop for Congatec; the borrow checker admits the drop only when no
\* Board borrowing this context is live.  The record notes whether the
\* operation before was the close of a Board of this very context.
CongatecDrop(c) ==
    /\ status # "aborted"
    /\ c \in libs
    /\ \A bd \in boards : ~BoardBorrowsLibrary(bd, c)
    /\ \E ret \in RetCodes :
        /\ last' = Call("Congatec::drop", "CgosLibUninitialize", 0, ret,
                        [lib |-> c,
                         afterClose |-> last.fn = "CgosBoardClose" /\ last.arg = c],
                        IF AssertNe(ret) THEN Returned(NoValue) ELSE Panic)
        /\ status' = IF AssertNe(ret) THEN status ELSE AfterPanic
    /\ libs' = libs \ {c}
    /\ libInit' = IF libInit > 0 THEN libInit - 1 ELSE 0
    /\ UNCHANGED <<boards, table, accs, erase>>

----------------------------------------------------------------------------
(* Board: board.rs *)

\* the raw interface hands out a handle that is not open
FreeHandles == Handles \ table

\* Self { handle, _library_lifetime: PhantomData }
BoardValue(c, h) == [lib |-> c, handle |-> h]

\* CgosBoardOpen / CgosBoardOpenByNameA under assert_ne!: on a nonzero
\* return the interface has opened a free handle h
OpenAsserted(op, fn, c) ==
    \E ret \in RetCodes :
        IF AssertNe(ret)
        THEN \E h \in FreeHandles :
             /\ last' = Call(op, fn, h, ret, c, Returned(NoValue))
             /\ boards' = boards \cup {BoardValue(c, h)}
             /\ table' = table \cup {h}
             /\ status' = status
        ELSE /\ last' = Call(op, fn, 0, ret, c, Panic)
             /\ status' = AfterPanic
             /\ UNCHANGED <<boards, table>>

\* Congatec::get_board -> Board::new
GetBoard(c, index) ==
    /\ status = "running"
    /\ c \in libs
    /\ Cardinality(boards) < MaxBoards
    /\ IF ~FitsU32(index)
       THEN \* index.try_into().unwrap()
            /\ last' = Call("Board::new", "none", 0, 0, c, Panic)
            /\ status' = AfterPanic
            /\ UNCHANGED <<boards, table>>
       ELSE OpenAsserted("Board::new", "CgosBoardOpen", c)
    /\ UNCHANGED <<libs, libInit, accs, erase>>

\* Congatec::get_board_from_name -> Board::from_name
GetBoardFromName(c, interiorNul) ==
    /\ status = "running"
    /\ c \in libs
    /\ Cardinality(boards) < MaxBoards
    /\ IF interiorNul
       THEN \* CString::new(name).unwrap()
            /\ last' = Call("Board::from_name", "none", 0, 0, c, Panic)
            /\ status' = AfterPanic
            /\ UNCHANGED <<boards, table>>
       ELSE OpenAsserted("Board::from_name", "CgosBoardOpenByNameA", c)
    /\ UNCHANGED <<libs, libInit, accs, erase>>

\* an accessor minted with &'library self carries a borrow of that Board
AccBorrowsBoard(ac, bd) == ac.owner = bd.handle

\* (mutant) a Drop that ignores the return code of CgosBoardClose
BoardDropIgnoresFailure(ret) == FALSE

\* assert_ne!(CgosBoardClose(self.handle), 0) in Drop
BoardDropPanics(ret) == ~AssertNe(ret)

\* impl Drop for Board; the borrow checker admits the drop only when no
\* accessor borrowing this Board is live.  A failed close may or may not
\* have released the handle inside the interface.
BoardDrop(bd) ==
    /\ status # "aborted"
    /\ bd \in boards
    /\ \A ac \in accs : ~AccBorrowsBoard(ac, bd)
    /\ \E ret \in RetCodes, released \in BOOLEAN :
        /\ ret # 0 => released
        /\ last' = Call("Board::drop", "CgosBoardClose", bd.handle, ret, bd.lib,
                        IF BoardDropPanics(ret) THEN Panic ELSE Returned(NoValue))
        /\ status' = IF BoardDropPanics(ret) THEN AfterPanic ELSE status
        /\ table' = IF released THEN table \ {bd.handle} ELSE table
    /\ boards' = boards \ {bd}
    /\ UNCHANGED <<libs, libInit, accs, erase>>

\* name / info / boot_count / running_time (asserted) and
\* get_number_of_* (not asserted): a raw call with self.handle
BoardCall(bd, asserted) ==
    /\ status = "running"
    /\ bd \in boards
    /\ \E ret \in RetCodes :
        LET panics == asserted /\ ~AssertNe(ret) IN
        /\ last' = Call("Board::call", "CgosBoard*", bd.handle, ret, asserted,
                        IF panics THEN Panic ELSE Returned(NoValue))
        /\ status' = IF panics THEN AfterPanic ELSE status
    /\ UNCHANGED <<libs, libInit, boards, table, accs, erase>>

----------------------------------------------------------------------------
(* Accessor minting: Board::get_* and the accessors' constructors *)

\* the accessor a factory taking &'library self returns: it carries the
\* Board's handle and, through its lifetime, a borrow of the Board
Minted(kind, bd, index) ==
    [kind |-> kind, owner |-> bd.handle, handle |-> bd.handle, index |-> index]

\* a new accessor value comes to life
Mint(op, ac, arg) ==
    /\ ac \notin accs
    /\ accs' = accs \cup {ac}
    /\ last' = Call(op, "none", ac.handle, 1, arg, Returned(ac))
    /\ status' = status

\* Temperature::new / Fan::new / StorageArea::from_index:
\* Self { handle, index: index.try_into().unwrap() }
MintFromIndex(op, kind, bd, index) ==
    /\ status = "running"
    /\ bd \in boards
    /\ Cardinality(accs) < MaxAccs
    /\ IF FitsU32(index)
       THEN Mint(op, Minted(kind, bd, AsU32(index)), index)
       ELSE /\ accs' = accs
            /\ last' = Call(op, "none", bd.handle, 1, index, Panic)
            /\ status' = AfterPanic
    /\ UNCHANGED <<libs, libInit, boards, table, erase>>

\* Board::get_temperature
GetTemperature(bd, index) ==
    MintFromIndex("Board::get_temperature", "Temperature", bd, index)

\* Board::get_fan
GetFan(bd, index) == MintFromIndex("Board::get_fan", "Fan", bd, index)

\* Board::get_storage_area_from_index
GetStorageAreaFromIndex(bd, index) ==
    MintFromIndex("Board::get_storage_area_from_index", "StorageArea", bd, index)

----------------------------------------------------------------------------
(* Capability bit-sets: bitflags! in status.rs, board.rs, storage_area.rs *)

CGOS_SENSOR_ACTIVE == U32(0, 1)
CGOS_SENSOR_ALARM == U32(0, 2)
CGOS_SENSOR_BROKEN == U32(0, 4)
CGOS_SENSOR_SHORTCIRCUIT == U32(0, 8)

CGOS_BOARD_CLASS_CPU == U32(0, 1)
CGOS_BOARD_CLASS_VGA == U32(0, 2)
CGOS_BOARD_CLASS_IO == U32(0, 4)

CGOS_STORAGE_AREA_UNKNOWN == U32(0, 0)
CGOS_STORAGE_AREA_EEPROM == U32(1, 0)
CGOS_STORAGE_AREA_FLASH == U32(2, 0)
CGOS_STORAGE_AREA_CMOS == U32(3, 0)
CGOS_STORAGE_AREA_RAM == U32(4, 0)

\* the declared flags of each type
StatusFlags ==
    <<CGOS_SENSOR_ACTIVE, CGOS_SENSOR_ALARM, CGOS_SENSOR_BROKEN,
      CGOS_SENSOR_SHORTCIRCUIT>>

BoardClassFlags ==
    <<U32(0, 0), CGOS_BOARD_CLASS_CPU, CGOS_BOARD_CLASS_VGA, CGOS_BOARD_CLASS_IO>>

StorageAreaTypeFlags ==
    <<CGOS_STORAGE_AREA_UNKNOWN, CGOS_STORAGE_AREA_EEPROM, CGOS_STORAGE_AREA_FLASH,
      CGOS_STORAGE_AREA_CMOS, CGOS_STORAGE_AREA_RAM>>

\* all(): the union of the declared flags
RECURSIVE UnionFrom(_, _)
UnionFrom(flags, i) ==
    IF i > Len(flags) THEN U32(0, 0) ELSE Or32(flags[i], UnionFrom(flags, i + 1))

AllBits(flags) == UnionFrom(flags, 1)

\* (mutant) from_bits_unchecked: the raw bits as they are
FromBitsUnchecked(flags, raw) == raw

\* from_bits_truncate: Self { bits: bits & Self::all().bits }
FromBitsTruncate(flags, raw) == And32(raw, AllBits(flags))

\* bits(): the raw value of a set
Bits(set) == set

\* Board::get_storage_area_from_type -> StorageArea::from_type,
\* Self { handle, unit: type_.bits() }
GetStorageAreaFromType(bd, type) ==
    /\ status = "running"
    /\ bd \in boards
    /\ Cardinality(accs) < MaxAccs
    /\ Mint("Board::get_storage_area_from_type",
            Minted("StorageArea", bd, Bits(type)), type)
    /\ UNCHANGED <<libs, libInit, boards, table, erase>>

----------------------------------------------------------------------------
(* I2C accessor construction: i2c.rs *)

\* the accessor I2c::new(handle, index) returns: `handle` is a bare u32 and
\* 'library is not tied to any borrow, so the value borrows no Board
I2cValue(h, index) ==
    [kind |-> "I2c", owner |-> NoOwner, handle |-> h, index |-> index]

\* I2c::amount: CgosI2CCount(handle) as usize
I2cAmount(n) == AsUsize(n)

\* index > num_busses.saturating_sub(1)
I2cIndexOutOfRange(index, numBusses) == Gt(index, SaturatingSub1(numBusses))

\* I2c::new, called with the handle of a live Board; the interface reports
\* the live bus count n
I2cNew(bd, index, n) ==
    /\ status = "running"
    /\ bd \in boards
    /\ Cardinality(accs) < MaxAccs
    /\ LET arg == [index |-> index, n |-> n] IN
       IF I2cIndexOutOfRange(index, I2cAmount(n)) \/ ~FitsU32(index)
       THEN /\ accs' = accs
            /\ last' = Call("I2c::new", "CgosI2CCount", bd.handle, 1, arg,
                            Failed("IdxOutOfRange"))
            /\ status' = status
       ELSE Mint("I2c::new", I2cValue(bd.handle, AsU32(index)), arg)
    /\ UNCHANGED <<libs, libInit, boards, table, erase>>

----------------------------------------------------------------------------
(* Accessor use and end of life *)

\* which accessor kinds have methods under assert_ne! (TRUE) and methods
\* that hand the raw result on (FALSE)
AssertedChoices(kind) ==
    CASE kind = "Temperature" -> {TRUE}
      [] kind = "Fan" -> {TRUE}
      [] kind = "StorageArea" -> {TRUE, FALSE}
      [] kind = "I2c" -> {FALSE}

\* any method of a live accessor: a raw call with the stored handle
AccessorCall(ac, asserted) ==
    /\ status = "running"
    /\ ac \in accs
    /\ asserted \in AssertedChoices(ac.kind)
    /\ \E ret \in RetCodes :
        LET panics == asserted /\ ~AssertNe(ret) IN
        /\ last' = Call("Accessor::call", ac.kind, ac.handle, ret, asserted,
                        IF panics THEN Panic ELSE Returned(NoValue))
        /\ status' = IF panics THEN AfterPanic ELSE status
    /\ UNCHANGED <<libs, libInit, boards, table, accs, erase>>

\* the accessor goes out of scope (no Drop impl: nothing is called)
AccessorEnd(ac) ==
    /\ status # "aborted"
    /\ ac \in accs
    /\ accs' = accs \ {ac}
    /\ UNCHANGED <<libs, libInit, boards, table, erase, status, last>>

----------------------------------------------------------------------------
(* The ownership chain: any program over the operations that create,     *)
(* use and destroy contexts, boards and accessors                        *)

\* usize arguments: 0 and 2^32 (does not fit a u32)
OwnIndexArgs == {Usize(0, 0, 0, 0), Usize(0, 1, 0, 0)}

\* live bus counts the interface reports: 0 and 1
OwnBusCounts == {U32(0, 0), U32(0, 1)}

OwnTypeArgs == {CGOS_STORAGE_AREA_EEPROM}

Next ==
    \/ \E c \in LibIds : CongatecNew(c)
    \/ \E c \in LibIds : CongatecDrop(c)
    \/ \E c \in LibIds, index \in OwnIndexArgs : GetBoard(c, index)
    \/ \E c \in LibIds, interiorNul \in BOOLEAN : GetBoardFromName(c, interiorNul)
    \/ \E bd \in boards, asserted \in BOOLEAN : BoardCall(bd, asserted)
    \/ \E bd \in boards : BoardDrop(bd)
    \/ \E bd \in boards, index \in OwnIndexArgs : GetTemperature(bd, index)
    \/ \E bd \in boards, index \in OwnIndexArgs : GetFan(bd, index)
    \/ \E bd \in boards, index \in OwnIndexArgs : GetStorageAreaFromIndex(bd, index)
    \/ \E bd \in boards, type \in OwnTypeArgs : GetStorageAreaFromType(bd, type)
    \/ \E bd \in boards, index \in OwnIndexArgs, n \in OwnBusCounts : I2cNew(bd, index, n)
    \/ \E ac \in accs, asserted \in BOOLEAN : AccessorCall(ac, asserted)
    \/ \E ac \in accs : AccessorEnd(ac)

Spec == Init /\ [][Next]_vars

----------------------------------------------------------------------------
(* I2C bus accessor operations: i2c.rs *)

CGOS_I2C_TYPE_UNKNOWN == U32(0, 0)
CGOS_I2C_TYPE_PRIMARY == U32(1, 0)
CGOS_I2C_TYPE_SMB == U32(2, 0)
CGOS_I2C_TYPE_DDC == U32(3, 0)

I2cVariant(name, x) == [variant |-> name, x |-> x]

\* (mutant) a decoder whose fallback arm drops the value
I2cTypeFromLossy(value) ==
    CASE value = CGOS_I2C_TYPE_PRIMARY -> I2cVariant("Primary", U32(0, 0))
      [] value = CGOS_I2C_TYPE_SMB -> I2cVariant("Smb", U32(0, 0))
      [] value = CGOS_I2C_TYPE_DDC -> I2cVariant("Ddc", U32(0, 0))
      [] OTHER -> I2cVariant("Unknown", U32(0, 0))

\* impl From<u32> for I2cType
I2cTypeFrom(value) ==
    CASE value = CGOS_I2C_TYPE_UNKNOWN -> I2cVariant("Unknown", U32(0, 0))
      [] value = CGOS_I2C_TYPE_PRIMARY -> I2cVariant("Primary", U32(0, 0))
      [] value = CGOS_I2C_TYPE_SMB -> I2cVariant("Smb", U32(0, 0))
      [] value = CGOS_I2C_TYPE_DDC -> I2cVariant("Ddc", U32(0, 0))
      [] OTHER -> I2cVariant("CongatecInternalUse", value)

\* impl Into<u32> for I2cType
I2cTypeInto(t) ==
    CASE t.variant = "Unknown" -> CGOS_I2C_TYPE_UNKNOWN
      [] t.variant = "Primary" -> CGOS_I2C_TYPE_PRIMARY
      [] t.variant = "Smb" -> CGOS_I2C_TYPE_SMB
      [] t.variant = "Ddc" -> CGOS_I2C_TYPE_DDC
      [] t.variant = "CongatecInternalUse" -> t.x

\* an operation of a live accessor of the given kind, while no panic is
\* under way
Using(ac, kind) == status = "running" /\ ac \in accs /\ ac.kind = kind

\* the operation returns or fails without touching any value or the state
\* of the interface
Answer(op, fn, ac, ret, arg, res) ==
    /\ last' = Call(op, fn, ac.handle, ret, arg, res)
    /\ UNCHANGED <<libs, libInit, boards, table, accs, erase, status>>

\* the operation panics
Panics(op, fn, ac, ret, arg) ==
    /\ last' = Call(op, fn, ac.handle, ret, arg, Panic)
    /\ status' = AfterPanic
    /\ UNCHANGED <<libs, libInit, boards, table, accs, erase>>

\* I2c::i2c_type: I2cType::from(CgosI2CType(handle, index))
I2cType(ac, raw) ==
    /\ Using(ac, "I2c")
    /\ Answer("I2c::i2c_type", "CgosI2CType", ac, 1, raw, Returned(I2cTypeFrom(raw)))

\* I2c::is_available: CgosI2CIsAvailable(handle, index) == 1
I2cIsAvailable(ac, raw) ==
    /\ Using(ac, "I2c")
    /\ Answer("I2c::is_available", "CgosI2CIsAvailable", ac, 1, raw,
              Returned(raw = U32(0, 1)))

\* if retcode != 0 { Ok(value) } else { Err(I2cErr::BusErr) }
I2cResult(ret, value) == IF ret # 0 THEN Returned(value) ELSE Failed("BusErr")

\* I2c::read: the length goes to the interface as `rd_data.len() as u32`
I2cRead(ac, len, ret) ==
    /\ Using(ac, "I2c")
    /\ Answer("I2c::read", "CgosI2CRead", ac, ret,
              [len |-> len, passed |-> AsU32(len)], I2cResult(ret, NoValue))

\* I2c::write: the length goes to the interface as `wr_data.len() as u32`
I2cWrite(ac, len, ret) ==
    /\ Using(ac, "I2c")
    /\ Answer("I2c::write", "CgosI2CWrite", ac, ret,
              [len |-> len, passed |-> AsU32(len)], I2cResult(ret, NoValue))

\* I2c::read_register: Ok(the byte the interface stored)
I2cReadRegister(ac, byte, ret) ==
    /\ Using(ac, "I2c")
    /\ Answer("I2c::read_register", "CgosI2CReadRegister", ac, ret, NoValue,
              I2cResult(ret, IF ret # 0 THEN byte ELSE 0))

\* I2c::write_register
I2cWriteRegister(ac, ret) ==
    /\ Using(ac, "I2c")
    /\ Answer("I2c::write_register", "CgosI2CWriteRegister", ac, ret, NoValue,
              I2cResult(ret, NoValue))

\* I2c::write_read_combined: the write length goes through
\* wr_len.try_into().unwrap(), the read length as `rd_data.len() as u32`
I2cWriteReadCombined(ac, wrLen, rdLen, ret) ==
    /\ Using(ac, "I2c")
    /\ LET arg == [len |-> wrLen, passed |-> AsU32(rdLen)] IN
       IF FitsU32(wrLen)
       THEN Answer("I2c::write_read_combined", "CgosI2CWriteReadCombined", ac, ret,
                   arg, I2cResult(ret, NoValue))
       ELSE Panics("I2c::write_read_combined", "none", ac, ret, arg)

\* I2c::get_max_frequency
I2cGetMaxFrequency(ac, freq, ret) ==
    /\ Using(ac, "I2c")
    /\ Answer("I2c::get_max_frequency", "CgosI2CGetMaxFrequency", ac, ret, NoValue,
              I2cResult(ret, IF ret # 0 THEN freq ELSE U32(0, 0)))

\* I2c::get_frequency
I2cGetFrequency(ac, freq, ret) ==
    /\ Using(ac, "I2c")
    /\ Answer("I2c::get_frequency", "CgosI2CGetFrequency", ac, ret, NoValue,
              I2cResult(ret, IF ret # 0 THEN freq ELSE U32(0, 0)))

\* I2c::set_frequency
I2cSetFrequency(ac, freq, ret) ==
    /\ Using(ac, "I2c")
    /\ Answer("I2c::set_frequency", "CgosI2CSetFrequency", ac, ret, freq,
              I2cResult(ret, NoValue))

----------------------------------------------------------------------------
(* Storage area operations: storage_area.rs *)

\* a raw return value read as a return code: zero or nonzero
RetOf(raw) == IF raw = U32(0, 0) THEN 0 ELSE 1

\* StorageArea::type_: from_bits_truncate of the raw return, no assertion
StorageAreaType(ac, raw) ==
    /\ Using(ac, "StorageArea")
    /\ Answer("StorageArea::type_", "CgosStorageAreaType", ac, RetOf(raw), raw,
              Returned(FromBitsTruncate(StorageAreaTypeFlags, raw)))

\* StorageArea::size: the raw return as usize, no assertion
StorageAreaSize(ac, raw) ==
    /\ Using(ac, "StorageArea")
    /\ Answer("StorageArea::size", "CgosStorageAreaSize", ac, RetOf(raw), raw,
              Returned(AsUsize(raw)))

\* StorageArea::block_size: the raw return as usize, no assertion
StorageAreaBlockSize(ac, raw) ==
    /\ Using(ac, "StorageArea")
    /\ Answer("StorageArea::block_size", "CgosStorageAreaBlockSize", ac, RetOf(raw), raw,
              Returned(AsUsize(raw)))

\* StorageArea::is_locked: raw != 0, no assertion
StorageAreaIsLocked(ac, raw) ==
    /\ Using(ac, "StorageArea")
    /\ Answer("StorageArea::is_locked", "CgosStorageAreaIsLocked", ac, RetOf(raw), raw,
              Returned(raw # U32(0, 0)))

\* (mutant) the raw call without assert_ne!
StorageUnasserted(op, fn, ac, offset, len, ret) ==
    /\ Using(ac, "StorageArea")
    /\ LET arg == [offset |-> offset, len |-> len] IN
       IF ~FitsU32(offset) \/ ~FitsU32(len)
       THEN Panics(op, "none", ac, 1, arg)
       ELSE Answer(op, fn, ac, ret, arg, Returned(NoValue))

\* the shape of read / write / lock / unlock: the usize arguments go
\* through try_into().unwrap(), the raw call is under assert_ne!
StorageAsserted(op, fn, ac, offset, len, ret) ==
    /\ Using(ac, "StorageArea")
    /\ LET arg == [offset |-> offset, len |-> len] IN
       IF ~FitsU32(offset) \/ ~FitsU32(len)
       THEN Panics(op, "none", ac, 1, arg)
       ELSE IF AssertNe(ret)
       THEN Answer(op, fn, ac, ret, arg, Returned(NoValue))
       ELSE Panics(op, fn, ac, ret, arg)

\* StorageArea::read
StorageAreaRead(ac, offset, len, ret) ==
    StorageAsserted("StorageArea::read", "CgosStorageAreaRead", ac, offset, len, ret)

\* StorageArea::write
StorageAreaWrite(ac, offset, len, ret) ==
    StorageAsserted("StorageArea::write", "CgosStorageAreaWrite", ac, offset, len, ret)

\* StorageArea::lock: the offset passed is the literal 0
StorageAreaLock(ac, len, ret) ==
    StorageAsserted("StorageArea::lock", "CgosStorageAreaLock", ac,
                    Usize(0, 0, 0, 0), len, ret)

\* StorageArea::unlock: the offset passed is the literal 0
StorageAreaUnlock(ac, len, ret) ==
    StorageAsserted("StorageArea::unlock", "CgosStorageAreaUnlock", ac,
                    Usize(0, 0, 0, 0), len, ret)

\* the erase the interface is tracking (the one started last): which area
\* and range it is for, its phase, and what erase_status last told the
\* caller about it
EraseState(target, phase, reported) ==
    [target |-> target, phase |-> phase, reported |-> reported]

EraseTarget(ac, offset, len) ==
    [handle |-> ac.handle, unit |-> ac.index, offset |-> offset, len |-> len]

\* StorageArea::erase: a successful call starts an erase inside the interface
StorageAreaErase(ac, offset, len, ret) ==
    /\ Using(ac, "StorageArea")
    /\ LET arg == [offset |-> offset, len |-> len] IN
       IF ~FitsU32(offset) \/ ~FitsU32(len)
       THEN Panics("StorageArea::erase", "none", ac, 1, arg)
       ELSE IF AssertNe(ret)
       THEN /\ last' = Call("StorageArea::erase", "CgosStorageAreaErase", ac.handle,
                            ret, arg, Returned(NoValue))
            /\ erase' = EraseState(EraseTarget(ac, AsU32(offset), AsU32(len)),
                                   "busy", "none")
            /\ UNCHANGED <<libs, libInit, boards, table, accs, status>>
       ELSE Panics("StorageArea::erase", "CgosStorageAreaErase", ac, ret, arg)

\* the interface finishes the erase it was working on
EraseCompletes(ok) ==
    /\ erase.phase = "busy"
    /\ erase' = [erase EXCEPT !.phase = IF ok THEN "done" ELSE "failed"]
    /\ UNCHANGED <<libs, libInit, boards, table, accs, status, last>>

\* the status codes the interface can store for an area and range: for the
\* tracked erase 1 while it is working, 0 once finished, 2 once failed;
\* for anything else whatever the interface holds
EraseCodes(target) ==
    IF erase.target # target THEN {0, 1, 2, 3}
    ELSE CASE erase.phase = "busy" -> {1}
           [] erase.phase = "done" -> {0}
           [] erase.phase = "failed" -> {2}

\* (mutant) the first two arms exchanged
EraseStatusFromSwapped(value) ==
    CASE value = 0 -> "InProgress"
      [] value = 1 -> "Successful"
      [] value = 2 -> "Failed"
      [] OTHER -> "panic"

\* impl From<u32> for EraseStatus ("panic" for the `_ => panic!` arm)
EraseStatusFrom(value) ==
    CASE value = 0 -> "Successful"
      [] value = 1 -> "InProgress"
      [] value = 2 -> "Failed"
      [] OTHER -> "panic"

\* StorageArea::erase_status
StorageAreaEraseStatus(ac, offset, len, ret, code) ==
    /\ Using(ac, "StorageArea")
    /\ LET target == EraseTarget(ac, AsU32(offset), AsU32(len))
           arg == [offset |-> offset, len |-> len, code |-> code, target |-> target]
       IN
       IF ~FitsU32(offset) \/ ~FitsU32(len)
       THEN Panics("StorageArea::erase_status", "none", ac, 1, arg)
       ELSE /\ code \in EraseCodes(target)
            /\ IF ~AssertNe(ret) \/ EraseStatusFrom(code) = "panic"
               THEN Panics("StorageArea::erase_status",
                           "CgosStorageAreaEraseStatus", ac, ret, arg)
               ELSE /\ last' = Call("StorageArea::erase_status",
                                    "CgosStorageAreaEraseStatus", ac.handle, ret,
                                    arg,
                                    Returned(EraseStatusFrom(code)))
                    /\ erase' = IF erase.target = target
                                THEN [erase EXCEPT !.reported = EraseStatusFrom(code)]
                                ELSE erase
                    /\ UNCHANGED <<libs, libInit, boards, table, accs, status>>

----------------------------------------------------------------------------
(* Temperature and fan sensors: temperature.rs, fan.rs *)

CGOS_TEMP_CPU == U32(1, 0)
CGOS_TEMP_BOX == U32(2, 0)
CGOS_TEMP_ENV == U32(3, 0)
CGOS_TEMP_BOARD == U32(4, 0)
CGOS_TEMP_BACKPLANE == U32(5, 0)
CGOS_TEMP_CHIPSETS == U32(6, 0)
CGOS_TEMP_VIDEO == U32(7, 0)
CGOS_TEMP_OTHER == U32(8, 0)
CGOS_TEMP_TOPDIMM_ENV == U32(9, 0)
CGOS_TEMP_BOTDIMM_ENV == U32(10, 0)

\* impl From<u32> for TemperatureType ("panic" for the `_ => panic!` arm)
TemperatureTypeFrom(value) ==
    CASE value = CGOS_TEMP_CPU -> "Cpu"
      [] value = CGOS_TEMP_BOX -> "Box"
      [] value = CGOS_TEMP_ENV -> "Environment"
      [] value = CGOS_TEMP_BOARD -> "Board"
      [] value = CGOS_TEMP_BACKPLANE -> "Backplane"
      [] value = CGOS_TEMP_CHIPSETS -> "Chipsets"
      [] value = CGOS_TEMP_VIDEO -> "Video"
      [] value = CGOS_TEMP_OTHER -> "Other"
      [] value = CGOS_TEMP_TOPDIMM_ENV -> "TopRAMEnvironment"
      [] value = CGOS_TEMP_BOTDIMM_ENV -> "BottomRAMEnvironment"
      [] OTHER -> "panic"

\* impl Into<u32> for TemperatureType
TemperatureTypeInto(type) ==
    CASE type = "Cpu" -> CGOS_TEMP_CPU
      [] type = "Box" -> CGOS_TEMP_BOX
      [] type = "Environment" -> CGOS_TEMP_ENV
      [] type = "Board" -> CGOS_TEMP_BOARD
      [] type = "Backplane" -> CGOS_TEMP_BACKPLANE
      [] type = "Chipsets" -> CGOS_TEMP_CHIPSETS
      [] type = "Video" -> CGOS_TEMP_VIDEO
      [] type = "Other" -> CGOS_TEMP_OTHER
      [] type = "TopRAMEnvironment" -> CGOS_TEMP_TOPDIMM_ENV
      [] type = "BottomRAMEnvironment" -> CGOS_TEMP_BOTDIMM_ENV

\* (mutant) two arms of the decoder exchanged
FanTypeFromSwapped(value) ==
    CASE value = CGOS_TEMP_CPU -> "Cpu"
      [] value = CGOS_TEMP_BOX -> "Box"
      [] value = CGOS_TEMP_ENV -> "Environment"
      [] value = CGOS_TEMP_BOARD -> "Board"
      [] value = CGOS_TEMP_BACKPLANE -> "Backplane"
      [] value = CGOS_TEMP_CHIPSETS -> "Chipsets"
      [] value = CGOS_TEMP_VIDEO -> "Video"
      [] value = CGOS_TEMP_OTHER -> "TopRAMEnvironment"
      [] value = CGOS_TEMP_TOPDIMM_ENV -> "Other"
      [] value = CGOS_TEMP_BOTDIMM_ENV -> "BottomRAMEnvironment"
      [] OTHER -> "panic"

\* impl From<u32> for FanType ("panic" for the `_ => panic!` arm)
FanTypeFrom(value) ==
    CASE value = CGOS_TEMP_CPU -> "Cpu"
      [] value = CGOS_TEMP_BOX -> "Box"
      [] value = CGOS_TEMP_ENV -> "Environment"
      [] value = CGOS_TEMP_BOARD -> "Board"
      [] value = CGOS_TEMP_BACKPLANE -> "Backplane"
      [] value = CGOS_TEMP_CHIPSETS -> "Chipsets"
      [] value = CGOS_TEMP_VIDEO -> "Video"
      [] value = CGOS_TEMP_OTHER -> "Other"
      [] value = CGOS_TEMP_TOPDIMM_ENV -> "TopRAMEnvironment"
      [] value = CGOS_TEMP_BOTDIMM_ENV -> "BottomRAMEnvironment"
      [] OTHER -> "panic"

\* impl Into<u32> for FanType
FanTypeInto(type) ==
    CASE type = "Cpu" -> CGOS_TEMP_CPU
      [] type = "Box" -> CGOS_TEMP_BOX
      [] type = "Environment" -> CGOS_TEMP_ENV
      [] type = "Board" -> CGOS_TEMP_BOARD
      [] type = "Backplane" -> CGOS_TEMP_BACKPLANE
      [] type = "Chipsets" -> CGOS_TEMP_CHIPSETS
      [] type = "Video" -> CGOS_TEMP_VIDEO
      [] type = "Other" -> CGOS_TEMP_OTHER
      [] type = "TopRAMEnvironment" -> CGOS_TEMP_TOPDIMM_ENV
      [] type = "BottomRAMEnvironment" -> CGOS_TEMP_BOTDIMM_ENV

\* the sensor-type variants of TemperatureType and of FanType
SensorTypes ==
    {"Cpu", "Box", "Environment", "Board", "Backplane", "Chipsets", "Video",
     "TopRAMEnvironment", "BottomRAMEnvironment", "Other"}

\* (mutant) the raw field read as an unsigned number
I32FromU32Unsigned(x) == [neg |-> FALSE, mag |-> x]

\* `x as i32` for x: u32 (two's complement), as sign and magnitude; the
\* magnitude is a u32, at most 2^31
I32FromU32(x) ==
    IF x[2] < 32768 THEN [neg |-> FALSE, mag |-> x]
    ELSE [neg |-> TRUE,
          mag |-> <<(Limb - x[1]) % Limb,
                    (Limb - 1 - x[2]) + (IF x[1] = 0 THEN 1 ELSE 0)>>]

\* `i as u32` for i: i32 (two's complement)
U32FromI32(i) ==
    IF ~i.neg \/ IsZero(i.mag) THEN i.mag
    ELSE <<(Limb - i.mag[1]) % Limb,
           (Limb - 1 - i.mag[2]) + (IF i.mag[1] = 0 THEN 1 ELSE 0)>>

\* an f32 is a sign, a 24-bit significand man (2^23 <= man < 2^24, or 0) and
\* an exponent: (-1)^neg * man * 2^exp. This rounds (q + f) * 2^exp, where
\* 0 <= f < 1 and sticky tells f # 0, to the nearest f32, ties to even
\* (sticky only with q >= 2^24)
RECURSIVE RoundF32(_, _, _, _)
RoundF32(neg, q, sticky, exp) ==
    IF q = 0 THEN [neg |-> neg, man |-> 0, exp |-> 0]
    ELSE IF q < 2^23 THEN RoundF32(neg, 2 * q, sticky, exp - 1)
    ELSE IF q < 2^24 THEN [neg |-> neg, man |-> q, exp |-> exp]
    ELSE IF q >= 2^25 THEN RoundF32(neg, q \div 2, sticky \/ q % 2 = 1, exp + 1)
    ELSE LET half == q \div 2
             up == q % 2 = 1 /\ (sticky \/ half % 2 = 1)
             man == IF up THEN half + 1 ELSE half
         IN  IF man = 2^24 THEN [neg |-> neg, man |-> 2^23, exp |-> exp + 2]
             ELSE [neg |-> neg, man |-> man, exp |-> exp + 1]

\* `i as f32` for i: i32: the nearest f32 (the magnitude 2^31 is i32::MIN)
F32FromI32(i) ==
    IF i.mag[2] < 2^15 THEN RoundF32(i.neg, i.mag[2] * Limb + i.mag[1], FALSE, 0)
    ELSE RoundF32(i.neg, 2^30, FALSE, 1)

\* `x / 1000.0` in f32: the quotient of man * 2^11 by 1000, rounded
F32Div1000(x) ==
    IF x.man = 0 THEN x
    ELSE LET a == (x.man \div Limb) * 2^11
             b == (x.man % Limb) * 2^11
             t == (a % 1000) * Limb + b
         IN  RoundF32(x.neg, (a \div 1000) * Limb + t \div 1000, t % 1000 # 0,
                      x.exp - 11)

\* `x * 1000.0` in f32: the product man * 1000, rounded
F32Mul1000(x) ==
    IF x.man = 0 THEN x
    ELSE LET h == x.man \div 2^12
             l == (x.man % 2^12) * 1000
         IN  RoundF32(x.neg, h * 16000 + l \div 2^8, l % 2^8 # 0, x.exp + 8)

\* `x as i32` for x: f32: truncation toward zero, saturating at the ends of
\* the i32 range
F32ToI32(x) ==
    IF x.man = 0 THEN [neg |-> FALSE, mag |-> <<0, 0>>]
    ELSE IF x.exp >= 8
    THEN [neg |-> x.neg, mag |-> IF x.neg THEN <<0, 32768>> ELSE <<Limb - 1, 32767>>]
    ELSE LET m == IF x.exp >= 0 THEN x.man * 2^x.exp
                  ELSE IF x.exp <= -24 THEN 0
                  ELSE x.man \div 2^(0 - x.exp)
         IN  [neg |-> x.neg /\ m # 0, mag |-> <<m % Limb, m \div Limb>>]

\* the raw fields TemperatureInfo holds in engineering units, with the names
\* they have there
TemperatureScaled ==
    <<<<"dwRes", "resolution">>, <<"dwMin", "minimum">>, <<"dwMax", "maximum">>,
      <<"dwAlarmHi", "alarm_high">>, <<"dwHystHi", "hysteresis_high">>,
      <<"dwAlarmLo", "alarm_low">>, <<"dwHystLo", "hysteresis_low">>>>

\* impl From<CGOSTEMPERATUREINFO> for TemperatureInfo: a panic on an unknown
\* type, else the TemperatureInfo
TemperatureInfoFrom(info) ==
    LET Units(x) == F32Div1000(F32FromI32(I32FromU32(x))) IN
    IF TemperatureTypeFrom(info.dwType) = "panic" THEN Panic
    ELSE Returned(
      [type_ |-> TemperatureTypeFrom(info.dwType),
       status |-> FromBitsTruncate(StatusFlags, info.dwFlags),
       alarm |-> info.dwAlarm,
       resolution |-> Units(info.dwRes),
       minimum |-> Units(info.dwMin),
       maximum |-> Units(info.dwMax),
       alarm_high |-> Units(info.dwAlarmHi),
       hysteresis_high |-> Units(info.dwHystHi),
       alarm_low |-> Units(info.dwAlarmLo),
       hysteresis_low |-> Units(info.dwHystLo)])

\* impl Into<CGOSTEMPERATUREINFO> for TemperatureInfo
TemperatureInfoInto(t) ==
    LET Milli(x) == U32FromI32(F32ToI32(F32Mul1000(x))) IN
    [dwType |-> TemperatureTypeInto(t.type_),
     dwFlags |-> Bits(t.status),
     dwAlarm |-> t.alarm,
     dwRes |-> Milli(t.resolution),
     dwMin |-> Milli(t.minimum),
     dwMax |-> Milli(t.maximum),
     dwAlarmHi |-> Milli(t.alarm_high),
     dwHystHi |-> Milli(t.hysteresis_high),
     dwAlarmLo |-> Milli(t.alarm_low),
     dwHystLo |-> Milli(t.hysteresis_low)]

\* the raw fields FanInfo holds as i32, with the names they have there
FanSigned ==
    <<<<"dwAlarm", "alarm">>, <<"dwSpeedNom", "speed_nominal">>,
      <<"dwMin", "minimum">>, <<"dwMax", "maximum">>,
      <<"dwAlarmHi", "alarm_high">>, <<"dwHystHi", "hysteresis_high">>,
      <<"dwAlarmLo", "alarm_low">>, <<"dwHystLo", "hysteresis_low">>,
      <<"dwOutMin", "out_minimum">>, <<"dwOutMax", "out_maximum">>>>

\* impl From<CGOSFANINFO> for FanInfo: a panic on an unknown type, else the
\* FanInfo
FanInfoFrom(info) ==
    IF FanTypeFrom(info.dwType) = "panic" THEN Panic
    ELSE Returned(
      [type_ |-> FanTypeFrom(info.dwType),
       status |-> FromBitsTruncate(StatusFlags, info.dwFlags),
       alarm |-> I32FromU32(info.dwAlarm),
       speed_nominal |-> I32FromU32(info.dwSpeedNom),
       minimum |-> I32FromU32(info.dwMin),
       maximum |-> I32FromU32(info.dwMax),
       alarm_high |-> I32FromU32(info.dwAlarmHi),
       hysteresis_high |-> I32FromU32(info.dwHystHi),
       alarm_low |-> I32FromU32(info.dwAlarmLo),
       hysteresis_low |-> I32FromU32(info.dwHystLo),
       out_minimum |-> I32FromU32(info.dwOutMin),
       out_maximum |-> I32FromU32(info.dwOutMax)])

\* impl Into<CGOSFANINFO> for FanInfo
FanInfoInto(f) ==
    [dwType |-> FanTypeInto(f.type_),
     dwFlags |-> Bits(f.status),
     dwAlarm |-> U32FromI32(f.alarm),
     dwSpeedNom |-> U32FromI32(f.speed_nominal),
     dwMin |-> U32FromI32(f.minimum),
     dwMax |-> U32FromI32(f.maximum),
     dwAlarmHi |-> U32FromI32(f.alarm_high),
     dwHystHi |-> U32FromI32(f.hysteresis_high),
     dwAlarmLo |-> U32FromI32(f.alarm_low),
     dwHystLo |-> U32FromI32(f.hysteresis_low),
     dwOutMin |-> U32FromI32(f.out_minimum),
     dwOutMax |-> U32FromI32(f.out_maximum)]

\* Temperature::info and Fan::info: the query under assert_ne!, then the
\* conversion of the snapshot the interface has filled
SensorInfo(op, fn, kind, ac, ret, info) ==
    /\ Using(ac, kind)
    /\ LET res == IF ~AssertNe(ret) THEN Panic
                  ELSE IF kind = "Temperature" THEN TemperatureInfoFrom(info)
                  ELSE FanInfoFrom(info)
       IN
       IF res.tag = "Panic"
       THEN Panics(op, fn, ac, ret, info)
       ELSE Answer(op, fn, ac, ret, info, res)

TemperatureInfo(ac, ret, info) ==
    SensorInfo("Temperature::info", "CgosTemperatureGetInfo", "Temperature", ac,
               ret, info)

FanInfo(ac, ret, info) ==
    SensorInfo("Fan::info", "CgosFanGetInfo", "Fan", ac, ret, info)

\* Temperature::current and Fan::current: the query under assert_ne!, the
\* flags through Status::from_bits_truncate
SensorCurrent(op, fn, kind, ac, ret, flags) ==
    /\ Using(ac, kind)
    /\ IF AssertNe(ret)
       THEN Answer(op, fn, ac, ret, flags,
                   Returned([status |-> FromBitsTruncate(StatusFlags, flags)]))
       ELSE Panics(op, fn, ac, ret, flags)

TemperatureCurrent(ac, ret, flags) ==
    SensorCurrent("Temperature::current", "CgosTemperatureGetCurrent", "Temperature",
                  ac, ret, flags)

FanCurrent(ac, ret, flags) ==
    SensorCurrent("Fan::current", "CgosFanGetCurrent", "Fan", ac, ret, flags)

\* Temperature::set_limits and Fan::set_limits: the caller's info converted
\* to the raw snapshot, the call with it under assert_ne!
SensorSetLimits(op, fn, kind, ac, ret, info) ==
    /\ Using(ac, kind)
    /\ LET arg == [info |-> info,
                   raw |-> IF kind = "Temperature" THEN TemperatureInfoInto(info)
                           ELSE FanInfoInto(info)]
       IN
       IF AssertNe(ret)
       THEN Answer(op, fn, ac, ret, arg, Returned(NoValue))
       ELSE Panics(op, fn, ac, ret, arg)

TemperatureSetLimits(ac, ret, info) ==
    SensorSetLimits("Temperature::set_limits", "CgosTemperatureSetLimits",
                    "Temperature", ac, ret, info)

FanSetLimits(ac, ret, info) ==
    SensorSetLimits("Fan::set_limits", "CgosFanSetLimits", "Fan", ac, ret, info)

----------------------------------------------------------------------------
(* Board::info: board.rs *)

\* CStr::to_str: the bytes are well-formed UTF-8. Width is the length of the
\* sequence a first byte announces (0: none starts with it), Second the
\* second bytes that first byte admits
RECURSIVE Utf8Valid(_)
Utf8Valid(s) ==
    IF s = <<>> THEN TRUE
    ELSE LET b == s[1]
             Width == IF b < 128 THEN 1
                      ELSE IF b \in 194..223 THEN 2
                      ELSE IF b \in 224..239 THEN 3
                      ELSE IF b \in 240..244 THEN 4
                      ELSE 0
             Second == CASE b = 224 -> 160..191
                         [] b = 237 -> 128..159
                         [] b = 240 -> 144..191
                         [] b = 244 -> 128..143
                         [] OTHER -> 128..191
         IN
         /\ Width > 0
         /\ Len(s) >= Width
         /\ Width >= 2 => s[2] \in Second
         /\ \A k \in 3..Width : s[k] \in 128..191
         /\ Utf8Valid(SubSeq(s, Width + 1, Len(s)))

\* CStr::from_ptr: the bytes of the buffer before its first NUL
RECURSIVE CStrFromPtr(_)
CStrFromPtr(buf) ==
    IF buf = <<>> \/ buf[1] = 0 THEN <<>>
    ELSE <<buf[1]>> \o CStrFromPtr(Tail(buf))

\* CStr::from_ptr(..).to_str().unwrap().to_string(): the String (its UTF-8
\* bytes), or a panic
CStrToString(buf) ==
    LET bytes == CStrFromPtr(buf) IN
    IF Utf8Valid(bytes) THEN Returned(bytes) ELSE Panic

\* `b as char` pushed to a String: the UTF-8 bytes of the code point b < 256
CharToString(b) ==
    IF b < 128 THEN <<b>> ELSE <<192 + (b \div 64), 128 + (b % 64)>>

\* (mutant) the high byte masked but not shifted down before `as u8`
ProductRevisionUnshifted(wProductRevision) ==
    LET major == (BitAnd16(wProductRevision, 65280)) % 256
        minor == BitAnd16(wProductRevision, 255) % 256
    IN  CharToString(major) \o <<46>> \o CharToString(minor)

\* product_revision: format!("{major}.{minor}") of the two bytes as chars
ProductRevision(wProductRevision) ==
    LET major == (BitAnd16(wProductRevision, 65280) \div 256) % 256
        minor == BitAnd16(wProductRevision, 255) % 256
    IN  CharToString(major) \o <<46>> \o CharToString(minor)

\* impl From<CGOSTIME> for BoardTime
BoardTimeFrom(time) ==
    [year |-> time.wYear, month |-> time.wMonth, day_of_week |-> time.wDayOfWeek,
     day |-> time.wDay, hour |-> time.wHour, minute |-> time.wMinute,
     second |-> time.wSecond, millisecond |-> time.wMilliseconds]

\* the text fields of the snapshot, in the order they are converted
BoardInfoTexts == <<"szBoard", "szBoardSub", "szManufacturer", "szSerialNumber",
                    "szPartNumber", "szEAN">>

\* impl From<CGOSBOARDINFOA> for BoardInfo: a panic when a text field is not
\* UTF-8, else the BoardInfo
BoardInfoFrom(info) ==
    IF \E k \in 1..Len(BoardInfoTexts) :
          CStrToString(info[BoardInfoTexts[k]]).tag = "Panic"
    THEN Panic
    ELSE Returned(
      [board |-> CStrToString(info.szBoard).val,
       board_sub |-> CStrToString(info.szBoardSub).val,
       manufacturer |-> CStrToString(info.szManufacturer).val,
       manufacturer_sub |-> info.dwManufacturer,
       manufacturing_date |-> BoardTimeFrom(info.stManufacturingDate),
       last_repair_date |-> BoardTimeFrom(info.stLastRepairDate),
       serial_number |-> CStrToString(info.szSerialNumber).val,
       product_revision |-> ProductRevision(info.wProductRevision),
       system_bios_revision |-> info.wBiosInterfaceRevision,
       bios_interface_build_revision |-> info.wBiosInterfaceBuildRevision,
       classes |-> FromBitsTruncate(BoardClassFlags, info.dwClasses),
       primary_class |-> FromBitsTruncate(BoardClassFlags, info.dwPrimaryClass),
       repair_counter |-> info.dwRepairCounter,
       part_number |-> CStrToString(info.szPartNumber).val,
       european_article_number |-> CStrToString(info.szEAN).val])

\* Board::info: the query under assert_ne!, then the conversion of the
\* snapshot the interface has filled
BoardInfo(bd, ret, info) ==
    /\ status = "running"
    /\ bd \in boards
    /\ LET res == IF AssertNe(ret) THEN BoardInfoFrom(info) ELSE Panic IN
       /\ last' = Call("Board::info", "CgosBoardGetInfoA", bd.handle, ret, info, res)
       /\ status' = IF res.tag = "Panic" THEN AfterPanic ELSE status
    /\ UNCHANGED <<libs, libInit, boards, table, accs, erase>>

\* x * k for a small k, limb by limb from limb i on: the limbs of the
\* product (the width of x) followed by the carry out of the highest limb
RECURSIVE MulFrom(_, _, _, _)
MulFrom(x, k, i, carry) ==
    IF i > Len(x) THEN <<carry>>
    ELSE <<(x[i] * k + carry) % Limb>>
         \o MulFrom(x, k, i + 1, (x[i] * k + carry) \div Limb)

\* (mutant) the product taken in u32, without the widening cast
RunningSecsNarrow(hours) ==
    LET a == MulFrom(hours, 60, 1, 0)
        b == MulFrom(SubSeq(a, 1, 2), 60, 1, 0)
    IN  [secs |-> <<b[1], b[2], 0, 0>>, overflow |-> a[3] # 0 \/ b[3] # 0]

\* hours as u64 * 60 * 60: the u64 product, and whether a multiplication
\* overflowed
RunningSecs(hours) ==
    LET a == MulFrom(<<hours[1], hours[2], 0, 0>>, 60, 1, 0)
        b == MulFrom(SubSeq(a, 1, 4), 60, 1, 0)
    IN  [secs |-> SubSeq(b, 1, 4), overflow |-> a[5] # 0 \/ b[5] # 0]

\* Board::boot_count: the counter query under assert_ne!, `count as usize`
BoardBootCount(bd, ret, count) ==
    /\ status = "running"
    /\ bd \in boards
    /\ last' = Call("Board::boot_count", "CgosBoardGetBootCounter", bd.handle, ret,
                    count, IF AssertNe(ret) THEN Returned(AsUsize(count)) ELSE Panic)
    /\ status' = IF AssertNe(ret) THEN status ELSE AfterPanic
    /\ UNCHANGED <<libs, libInit, boards, table, accs, erase>>

\* Board::running_time: the same query under assert_ne!, the count taken as
\* hours; an overflowing multiplication panics in a build with overflow
\* checks and wraps in one without
BoardRunningTime(bd, ret, hours) ==
    /\ status = "running"
    /\ bd \in boards
    /\ LET r == RunningSecs(hours)
           duration == Returned([secs |-> r.secs, nanos |-> 0])
       IN  \E res \in IF ~AssertNe(ret) THEN {Panic}
                      ELSE IF r.overflow THEN {Panic, duration}
                      ELSE {duration} :
              /\ last' = Call("Board::running_time", "CgosBoardGetBootCounter",
                              bd.handle, ret, hours, res)
              /\ status' = IF res.tag = "Panic" THEN AfterPanic ELSE status
    /\ UNCHANGED <<libs, libInit, boards, table, accs, erase>>

----------------------------------------------------------------------------
(* Programs working on one opened board: the state GetBoard leaves after  *)
(* Congatec::new, and from there the operations of one accessor kind      *)

InitOpened ==
    /\ libs = {1}
    /\ libInit = 1
    /\ boards = {BoardValue(1, 1)}
    /\ table = {1}
    /\ accs = {}
    /\ erase = [target |-> [handle |-> 0, unit |-> U32(0, 0), offset |-> U32(0, 0),
                           len |-> U32(0, 0)],
                phase |-> "idle", reported |-> "none"]
    /\ status = "running"
    /\ last = [op |-> "Board::new", fn |-> "CgosBoardOpen", handle |-> 1,
               wasOpen |-> FALSE, ret |-> 1, arg |-> 1, res |-> Returned(NoValue)]

\* usize arguments: 0, 1 and 2^32 (the last does not fit a u32)
IndexArgs == {Usize(0, 0, 0, 0), Usize(0, 0, 0, 1), Usize(0, 1, 0, 0)}
LenArgs == IndexArgs \cup {Usize(0, 0, 65535, 65535)}

\* live bus counts the interface reports
BusCounts == {U32(0, n) : n \in 0..MaxBusses}

\* raw enumerants: every documented constant, its neighbours and far values
TypeRaws == {U32(hi, lo) : hi \in (0..11) \cup {65535}, lo \in {0, 1}}

\* raw bit masks: declared flags, undeclared bits, mixtures of both
MaskRaws == {U32(hi, lo) : hi \in {0, 1, 3, 7, 8, 65535}, lo \in {0, 1, 5, 15, 16, 65535}}

\* a few of them, for the fields that accompany the one under study
FewMasks == {U32(0, 1), U32(0, 16), U32(65535, 65535)}

\* raw counts and frequencies
CountRaws == {U32(0, 0), U32(0, 1), U32(1, 34464), U32(65535, 65535)}

Bytes == {0, 255}

\* the end of the program's values: accessors, then the board, then the
\* context (also the order of unwinding)
Teardown ==
    \/ \E ac \in accs : AccessorEnd(ac)
    \/ \E bd \in boards : BoardDrop(bd)
    \/ \E c \in libs : CongatecDrop(c)

NextI2c ==
    \/ \E bd \in boards, index \in IndexArgs, n \in BusCounts : I2cNew(bd, index, n)
    \/ \E ac \in accs, raw \in TypeRaws : I2cType(ac, raw)
    \/ \E ac \in accs, raw \in CountRaws : I2cIsAvailable(ac, raw)
    \/ \E ac \in accs, len \in LenArgs, ret \in RetCodes : I2cRead(ac, len, ret)
    \/ \E ac \in accs, len \in LenArgs, ret \in RetCodes : I2cWrite(ac, len, ret)
    \/ \E ac \in accs, byte \in Bytes, ret \in RetCodes : I2cReadRegister(ac, byte, ret)
    \/ \E ac \in accs, ret \in RetCodes : I2cWriteRegister(ac, ret)
    \/ \E ac \in accs, wrLen \in LenArgs, rdLen \in LenArgs, ret \in RetCodes :
          I2cWriteReadCombined(ac, wrLen, rdLen, ret)
    \/ \E ac \in accs, freq \in CountRaws, ret \in RetCodes :
          I2cGetMaxFrequency(ac, freq, ret)
    \/ \E ac \in accs, freq \in CountRaws, ret \in RetCodes :
          I2cGetFrequency(ac, freq, ret)
    \/ \E ac \in accs, freq \in CountRaws, ret \in RetCodes :
          I2cSetFrequency(ac, freq, ret)
    \/ Teardown

SpecI2c == InitOpened /\ [][NextI2c]_vars

\* StorageAreaType values a caller passes to get_storage_area_from_type
StorageAreaTypeArgs ==
    {StorageAreaTypeFlags[i] : i \in 1..Len(StorageAreaTypeFlags)}

\* offsets and lengths: one that fits a u32 and 2^32
OffsetArgs == {Usize(0, 0, 0, 0), Usize(0, 1, 0, 0)}
SizeArgs == {Usize(0, 0, 0, 1), Usize(0, 1, 0, 0)}

\* status codes the interface can store
StatusCodes == 0..3

\* raw area types: none, a declared one, undeclared bits, every bit
StorageTypeRaws == FewMasks \cup {U32(0, 0), U32(2, 0)}

NextStorage ==
    \/ \E bd \in boards, index \in IndexArgs : GetStorageAreaFromIndex(bd, index)
    \/ \E bd \in boards, type \in StorageAreaTypeArgs : GetStorageAreaFromType(bd, type)
    \/ \E ac \in accs, raw \in StorageTypeRaws : StorageAreaType(ac, raw)
    \/ \E ac \in accs, raw \in CountRaws : StorageAreaSize(ac, raw)
    \/ \E ac \in accs, raw \in CountRaws : StorageAreaBlockSize(ac, raw)
    \/ \E ac \in accs, raw \in CountRaws : StorageAreaIsLocked(ac, raw)
    \/ \E ac \in accs, offset \in OffsetArgs, len \in SizeArgs, ret \in RetCodes :
          StorageAreaRead(ac, offset, len, ret)
    \/ \E ac \in accs, offset \in OffsetArgs, len \in SizeArgs, ret \in RetCodes :
          StorageAreaWrite(ac, offset, len, ret)
    \/ \E ac \in accs, offset \in OffsetArgs, len \in SizeArgs, ret \in RetCodes :
          StorageAreaErase(ac, offset, len, ret)
    \/ \E ac \in accs, offset \in OffsetArgs, len \in SizeArgs, ret \in RetCodes,
          code \in StatusCodes : StorageAreaEraseStatus(ac, offset, len, ret, code)
    \/ \E ac \in accs, len \in SizeArgs, ret \in RetCodes : StorageAreaLock(ac, len, ret)
    \/ \E ac \in accs, len \in SizeArgs, ret \in RetCodes : StorageAreaUnlock(ac, len, ret)
    \/ \E ok \in BOOLEAN : EraseCompletes(ok)
    \/ Teardown

SpecStorage == InitOpened /\ [][NextStorage]_vars

\* a snapshot the interface may write, every field with a value of its own
BaseInfo ==
    [szBoard |-> <<66, 0>>, szBoardSub |-> <<83, 0>>, szManufacturer |-> <<77, 0>>,
     szSerialNumber |-> <<49, 0>>, szPartNumber |-> <<80, 0>>, szEAN |-> <<69, 0>>,
     dwManufacturer |-> U32(0, 7),
     stManufacturingDate |->
         [wYear |-> 2001, wMonth |-> 2, wDayOfWeek |-> 3, wDay |-> 4, wHour |-> 5,
          wMinute |-> 6, wSecond |-> 7, wMilliseconds |-> 8],
     stLastRepairDate |->
         [wYear |-> 2011, wMonth |-> 12, wDayOfWeek |-> 0, wDay |-> 14, wHour |-> 15,
          wMinute |-> 16, wSecond |-> 17, wMilliseconds |-> 18],
     wProductRevision |-> 12849, wSystemBiosRevision |-> 291,
     wBiosInterfaceRevision |-> 1110, wBiosInterfaceBuildRevision |-> 1929,
     dwClasses |-> U32(0, 5), dwPrimaryClass |-> U32(0, 1),
     dwRepairCounter |-> U32(0, 3)]

\* sensor snapshots the interface may write, every field with a value of
\* its own (-1000 for dwMin)
BaseTemperature ==
    [dwType |-> CGOS_TEMP_CPU, dwFlags |-> U32(0, 1), dwAlarm |-> U32(0, 2),
     dwRes |-> U32(0, 125), dwMin |-> U32(65535, 64536), dwMax |-> U32(0, 45000),
     dwAlarmHi |-> U32(0, 40000), dwHystHi |-> U32(0, 2000),
     dwAlarmLo |-> U32(0, 5000), dwHystLo |-> U32(0, 1000)]

BaseFan ==
    [dwType |-> CGOS_TEMP_CPU, dwFlags |-> U32(0, 1), dwAlarm |-> U32(0, 2),
     dwSpeedNom |-> U32(0, 3000), dwMin |-> U32(65535, 64536),
     dwMax |-> U32(0, 45000), dwAlarmHi |-> U32(0, 40000),
     dwHystHi |-> U32(0, 2000), dwAlarmLo |-> U32(0, 5000),
     dwHystLo |-> U32(0, 1000), dwOutMin |-> U32(0, 10), dwOutMax |-> U32(0, 100)]

\* Status values a caller passes in a snapshot
StatusArgs == {U32(0, 0), CGOS_SENSOR_ACTIVE, Or32(CGOS_SENSOR_ACTIVE, CGOS_SENSOR_ALARM)}

NextQuery ==
    \/ \E bd \in boards, index \in IndexArgs : GetTemperature(bd, index)
    \/ \E bd \in boards, index \in IndexArgs : GetStorageAreaFromIndex(bd, index)
    \/ \E ac \in accs, raw \in MaskRaws : StorageAreaType(ac, raw)
    \/ \E bd \in boards, index \in IndexArgs : GetFan(bd, index)
    \/ \E ac \in accs, ret \in RetCodes, dwType \in TypeRaws, dwFlags \in FewMasks :
          TemperatureInfo(ac, ret, [BaseTemperature EXCEPT !.dwType = dwType,
                                                           !.dwFlags = dwFlags])
    \/ \E ac \in accs, ret \in RetCodes, dwType \in TypeRaws, dwFlags \in FewMasks :
          FanInfo(ac, ret, [BaseFan EXCEPT !.dwType = dwType, !.dwFlags = dwFlags])
    \/ \E ac \in accs, ret \in RetCodes, flags \in MaskRaws :
          TemperatureCurrent(ac, ret, flags)
    \/ \E ac \in accs, ret \in RetCodes, flags \in MaskRaws : FanCurrent(ac, ret, flags)
    \/ \E ac \in accs, ret \in RetCodes, type \in SensorTypes, status_ \in StatusArgs :
          TemperatureSetLimits(ac, ret,
              [TemperatureInfoFrom(BaseTemperature).val
                  EXCEPT !.type_ = type, !.status = status_])
    \/ \E ac \in accs, ret \in RetCodes, type \in SensorTypes, status_ \in StatusArgs :
          FanSetLimits(ac, ret,
              [FanInfoFrom(BaseFan).val EXCEPT !.type_ = type, !.status = status_])
    \/ \E bd \in boards, ret \in RetCodes, raw \in MaskRaws :
          BoardInfo(bd, ret, [BaseInfo EXCEPT !.dwClasses = raw, !.dwPrimaryClass = raw])
    \/ Teardown

SpecQuery == InitOpened /\ [][NextQuery]_vars

\* snapshots the interface may write. Packed revisions: "2.1", "1.0", the
\* extremes, bytes above the ASCII range; text buffers: ASCII, bytes after
\* the NUL, a two-byte character, an empty string, a byte no UTF-8 text holds
InfoSamples ==
    LET RevisionRaws == {12849, 12592, 0, 255, 65280, 65535, 16767, 16768, 32833}
        WordRaws == {0, 291, 65535}
        TextRaws == {<<65, 66, 0>>, <<65, 0, 66>>, <<195, 169, 0>>, <<0, 0>>, <<255, 0>>}
    IN
    {[BaseInfo EXCEPT !.wProductRevision = w] : w \in RevisionRaws}
    \cup {[BaseInfo EXCEPT !.wSystemBiosRevision = a, !.wBiosInterfaceRevision = b,
                           !.wBiosInterfaceBuildRevision = c] :
             a \in WordRaws, b \in WordRaws, c \in WordRaws}
    \cup {[BaseInfo EXCEPT ![BoardInfoTexts[k]] = t] :
             k \in 1..Len(BoardInfoTexts), t \in TextRaws}
    \cup {[BaseInfo EXCEPT !.dwManufacturer = m, !.dwRepairCounter = r] :
             m \in CountRaws, r \in CountRaws}
    \cup {[BaseInfo EXCEPT !.stManufacturingDate.wYear = a,
                           !.stLastRepairDate.wMilliseconds = b] :
             a \in {1999, 2001, 2011}, b \in {0, 8, 999}}
    \cup {[BaseInfo EXCEPT !.dwClasses = c, !.dwPrimaryClass = d] :
             c \in FewMasks, d \in FewMasks}

\* boot counters: 0, 1, 65535, 65536, 100000, 1193046 and 1193047 (the
\* first whose product by 3600 does not fit a u32), 2^32 - 1
CounterRaws ==
    CountRaws \cup {U32(0, 65535), U32(1, 0), U32(18, 13398), U32(18, 13399)}

NextBoard ==
    \/ \E bd \in boards, ret \in RetCodes, info \in InfoSamples : BoardInfo(bd, ret, info)
    \/ \E bd \in boards, ret \in RetCodes, count \in CounterRaws :
          BoardBootCount(bd, ret, count)
    \/ \E bd \in boards, ret \in RetCodes, hours \in CounterRaws :
          BoardRunningTime(bd, ret, hours)
    \/ \E bd \in boards : BoardDrop(bd)
    \/ \E c \in libs : CongatecDrop(c)

SpecBoard == InitOpened /\ [][NextBoard]_vars

\* sensor snapshots the interface may write: the base with one of the given
\* fields set to 0, 1, 125, 251, 45000, -1000, -251, 2^24 + 1 or an end of
\* the i32 range
SensorSamples(base, fields) ==
    LET MilliRaws == {U32(0, 0), U32(0, 1), U32(0, 125), U32(0, 251), U32(0, 45000),
                      U32(65535, 64536), U32(65535, 65285), U32(256, 1),
                      U32(32767, 65535), U32(32768, 0)}
    IN  {[base EXCEPT ![fields[k][1]] = m] : k \in 1..Len(fields), m \in MilliRaws}

\* info() of a sensor, and set_limits() with an info that info() had returned
NextScaled ==
    \/ \E bd \in boards, index \in IndexArgs : GetTemperature(bd, index)
    \/ \E bd \in boards, index \in IndexArgs : GetFan(bd, index)
    \/ \E ac \in accs, ret \in RetCodes, info \in SensorSamples(BaseTemperature, TemperatureScaled) :
          TemperatureInfo(ac, ret, info)
    \/ \E ac \in accs, ret \in RetCodes, info \in SensorSamples(BaseFan, FanSigned) : FanInfo(ac, ret, info)
    \/ \E ac \in accs, ret \in RetCodes, info \in SensorSamples(BaseTemperature, TemperatureScaled) :
          TemperatureSetLimits(ac, ret, TemperatureInfoFrom(info).val)
    \/ \E ac \in accs, ret \in RetCodes, info \in SensorSamples(BaseFan, FanSigned) :
          FanSetLimits(ac, ret, FanInfoFrom(info).val)
    \/ Teardown

SpecScaled == InitOpened /\ [][NextScaled]_vars

----------------------------------------------------------------------------
(* Properties *)

\* C1: no accessor operation reaches the raw interface with a board handle
\* whose CgosBoardClose has already run.
C1_AccessorNeverUsesClosedHandle ==
    last.op = "Accessor::call" => last.wasOpen

\* C2: a context is never destroyed while a Board opened from it is alive:
\* every live Board's context is live, and when CgosLibUninitialize has just
\* run for a context no Board of that context exists.
C2_ContextOutlivesItsBoards ==
    /\ \A bd \in boards : bd.lib \in libs
    /\ last.fn = "CgosLibUninitialize" =>
          \A bd \in boards : bd.lib # last.arg.lib

\* a context was destroyed right after the Board opened from it was closed
C2_ContextDroppedAfterItsBoard ==
    /\ last.fn = "CgosLibUninitialize"
    /\ last.arg.afterClose
    /\ last.ret # 0

\* C3: every opened handle is owned by exactly one Board and closed exactly
\* once, at that Board's destruction: live Boards hold distinct open handles,
\* without a panic the open handles are exactly those of the live Boards,
\* CgosBoardClose is only ever called for an open handle, and a failed close
\* panics.
C3_HandleClosedExactlyOnce ==
    /\ \A b1 \in boards, b2 \in boards : b1.handle = b2.handle => b1 = b2
    /\ \A bd \in boards : bd.handle \in table
    /\ status = "running" => table = {bd.handle : bd \in boards}
    /\ last.fn = "CgosBoardClose" =>
          /\ last.wasOpen
          /\ last.ret = 0 => last.res.tag = "Panic" /\ status # "running"

\* a close failed while another Board was still open: the panic unwinds
C3_FailedCloseUnwinds ==
    /\ last.fn = "CgosBoardClose"
    /\ last.ret = 0
    /\ status = "unwinding"
    /\ boards # {}

\* C4: I2c::new with live bus count n answers Err(IdxOutOfRange) whenever
\* index >= n, Ok only when index < n, and in the error case has called
\* nothing but the bus-count query.
C4_I2cNewRejectsOutOfRange ==
    last.op = "I2c::new" =>
        LET index == last.arg.index
            n == AsUsize(last.arg.n)
        IN  /\ ~Lt(index, n) => last.res = Failed("IdxOutOfRange")
            /\ last.res.tag = "Ok" => Lt(index, n)
            /\ last.res.tag = "Err" => last.fn = "CgosI2CCount"

I2cTransactions ==
    {"I2c::read", "I2c::write", "I2c::read_register", "I2c::write_register",
     "I2c::write_read_combined", "I2c::get_max_frequency", "I2c::get_frequency",
     "I2c::set_frequency"}

\* C5: every I2C transaction operation returns without panicking, for every
\* argument and return code: Ok on a nonzero return, Err(BusErr) on zero.
C5_I2cTransactionsNeverPanic ==
    last.op \in I2cTransactions =>
        /\ last.res.tag # "Panic"
        /\ last.ret # 0 => last.res.tag = "Ok"
        /\ last.ret = 0 => last.res = Failed("BusErr")

StorageAssertedOps ==
    {"StorageArea::read", "StorageArea::write", "StorageArea::erase",
     "StorageArea::erase_status", "StorageArea::lock", "StorageArea::unlock"}

StorageQueryOps ==
    {"StorageArea::type_", "StorageArea::size", "StorageArea::block_size",
     "StorageArea::is_locked"}

\* C6 as claimed: every StorageArea operation aborts whenever the raw call
\* returns zero.
C6_EveryStorageOpFailsFast ==
    /\ last.op \in StorageAssertedOps \cup StorageQueryOps
    /\ last.fn # "none"
    /\ last.ret = 0
    => last.res.tag = "Panic"

\* C6 as amended: read, write, erase, erase_status, lock and unlock panic
\* whenever the raw call returns zero; type_, size, block_size and is_locked
\* never panic and hand the raw return on, a zero return as the empty type
\* set, 0, 0 and false.
C6_AssertedStorageOpsFailFast ==
    /\ (last.op \in StorageAssertedOps /\ last.fn # "none" /\ last.ret = 0)
          => last.res.tag = "Panic" /\ status # "running"
    /\ last.op \in StorageQueryOps => last.res.tag = "Ok"
    /\ (last.op = "StorageArea::type_" /\ last.ret = 0) => last.res.val = U32(0, 0)
    /\ (last.op \in {"StorageArea::size", "StorageArea::block_size"} /\ last.ret = 0)
          => last.res.val = Usize(0, 0, 0, 0)
    /\ (last.op = "StorageArea::is_locked" /\ last.ret = 0) => last.res.val = FALSE

\* a read was refused by the interface and panicked
C6_FailedReadPanics ==
    /\ last.op = "StorageArea::read"
    /\ last.fn = "CgosStorageAreaRead"
    /\ last.ret = 0
    /\ last.res.tag = "Panic"

\* the answers of erase_status: code 0 is Successful, 1 InProgress, 2 Failed,
\* and while the interface is still working on the erase asked about the
\* answer is InProgress
C7_StatusFollowsInterface ==
    (last.op = "StorageArea::erase_status" /\ last.res.tag = "Ok") =>
        /\ last.arg.code = 0 => last.res.val = "Successful"
        /\ last.arg.code = 1 => last.res.val = "InProgress"
        /\ last.arg.code = 2 => last.res.val = "Failed"
        /\ (erase.target = last.arg.target /\ erase.phase = "busy")
              => last.res.val = "InProgress"

\* C7: after an erase has been started erase_status answers InProgress until
\* the interface reports a terminal code, and once it has answered Successful
\* or Failed for that erase it never answers InProgress for it again.
C7_EraseStatusNeverReverts ==
    /\ []C7_StatusFollowsInterface
    /\ [][erase.reported \in {"Successful", "Failed"}
            => erase'.reported # "InProgress"]_vars

\* erase_status answered InProgress, the erase finished, and it now answered
\* Successful
C7_EraseReportedDone ==
    /\ erase.phase = "done"
    /\ erase.reported = "Successful"
    /\ last.op = "StorageArea::erase_status"

I2cDocumented == {U32(0, 0), U32(1, 0), U32(2, 0), U32(3, 0)}

\* C8: i2c_type never panics; the primary constant 0x00010000 decodes to
\* Primary, every raw value outside the documented vocabulary decodes to
\* CongatecInternalUse carrying that value, and encoding the decoded value
\* gives the raw value back.
C8_I2cTypeRoundTrip ==
    last.op = "I2c::i2c_type" =>
        /\ last.res.tag = "Ok"
        /\ last.arg = U32(1, 0) => last.res.val.variant = "Primary"
        /\ last.arg \notin I2cDocumented =>
              last.res.val = I2cVariant("CongatecInternalUse", last.arg)
        /\ I2cTypeInto(last.res.val) = last.arg

\* an undocumented bus type came back from the interface
C8_UndocumentedTypeDecoded ==
    /\ last.op = "I2c::i2c_type"
    /\ last.arg = U32(65535, 1)
    /\ last.res.val.variant = "CongatecInternalUse"

\* the ten documented sensor types, 0x00010000 .. 0x000A0000
SensorDocumented == {U32(hi, 0) : hi \in 1..10}

\* C9: Temperature::info and Fan::info panic exactly when the raw sensor type
\* is none of the ten documented constants (or the query itself failed), and
\* for a documented constant they give the variant that set_limits encodes as
\* that same constant.
C9_SensorTypeClosedVocabulary ==
    /\ last.op = "Temperature::info" =>
          /\ last.res.tag = "Panic" <=>
                (last.ret = 0 \/ last.arg.dwType \notin SensorDocumented)
          /\ last.res.tag = "Ok" =>
                TemperatureTypeInto(last.res.val.type_) = last.arg.dwType
    /\ last.op = "Fan::info" =>
          /\ last.res.tag = "Panic" <=>
                (last.ret = 0 \/ last.arg.dwType \notin SensorDocumented)
          /\ last.res.tag = "Ok" =>
                FanTypeInto(last.res.val.type_) = last.arg.dwType

\* a fan reported the type 0x00080000 and info() returned
C9_FanTypeDecoded ==
    /\ last.op = "Fan::info"
    /\ last.arg.dwType = U32(8, 0)
    /\ last.res.tag = "Ok"

\* what the truncating conversion made of a raw mask: the set must be a fixed
\* point of bits-then-truncate and lie inside the declared mask
Truncated(flags, declared, set) ==
    /\ FromBitsTruncate(flags, Bits(set)) = set
    /\ And32(set, declared) = set

\* C10: for Status, BoardClass and StorageAreaType the truncating conversion
\* is idempotent and its result has no bit outside the declared flags
\* (0x0000000F, 0x00000007 and 0x00070000).
C10_TruncateIdempotent ==
    /\ (last.op \in {"Temperature::info", "Fan::info", "Temperature::current",
                     "Fan::current"} /\ last.res.tag = "Ok")
          => Truncated(StatusFlags, U32(0, 15), last.res.val.status)
    /\ (last.op = "Board::info" /\ last.res.tag = "Ok")
          => /\ Truncated(BoardClassFlags, U32(0, 7), last.res.val.classes)
             /\ Truncated(BoardClassFlags, U32(0, 7), last.res.val.primary_class)
    /\ last.op = "StorageArea::type_"
          => Truncated(StorageAreaTypeFlags, U32(7, 0), last.res.val)

\* a raw mask with every bit set went through StorageArea::type_
C10_AllBitsTruncated ==
    /\ last.op = "StorageArea::type_"
    /\ last.arg = U32(65535, 65535)
    /\ last.res.val = U32(7, 0)

\* the characters of a String whose characters are all below U+0100
RECURSIVE Utf8Chars(_)
Utf8Chars(s) ==
    IF s = <<>> THEN <<>>
    ELSE IF s[1] < 128 THEN <<s[1]>> \o Utf8Chars(Tail(s))
    ELSE <<(s[1] - 192) * 64 + (s[2] - 128)>> \o Utf8Chars(Tail(Tail(s)))

\* C11: for every packed 16-bit product revision, product_revision is the
\* character of the high byte, a dot, the character of the low byte (0x3231
\* gives "2.1", 0x3130 gives "1.0"), and this decoding never panics: info()
\* panics only on a failed query or a text field that is not UTF-8.
C11_ProductRevisionDecoded ==
    last.op = "Board::info" =>
        LET w == last.arg.wProductRevision IN
        /\ last.res.tag = "Ok" =>
              /\ Utf8Chars(last.res.val.product_revision) = <<w \div 256, 46, w % 256>>
              /\ w = 12849 => last.res.val.product_revision = <<50, 46, 49>>
              /\ w = 12592 => last.res.val.product_revision = <<49, 46, 48>>
        /\ last.res.tag = "Panic" =>
              \/ last.ret = 0
              \/ \E k \in 1..Len(BoardInfoTexts) :
                    ~Utf8Valid(CStrFromPtr(last.arg[BoardInfoTexts[k]]))

\* the packed revision 0x3231 came back as "2.1"
C11_RevisionTwoDotOne ==
    /\ last.op = "Board::info"
    /\ last.arg.wProductRevision = 12849
    /\ last.res.tag = "Ok"
    /\ last.res.val.product_revision = <<50, 46, 49>>

\* the f32 0.125 = 2^23 * 2^-26
OneEighth == [neg |-> FALSE, man |-> 2^23, exp |-> 0 - 26]

\* C12: the raw resolution 125 is reported as 0.125 and an info with
\* resolution 0.125 is written back as raw 125; generally every scaled field
\* of a TemperatureInfo that info() produced from a raw snapshot is written
\* back by set_limits as the raw value it came from.
C12_FixedPointRoundTrip ==
    /\ (last.op = "Temperature::info" /\ last.res.tag = "Ok"
          /\ last.arg.dwRes = U32(0, 125)) => last.res.val.resolution = OneEighth
    /\ last.op = "Temperature::set_limits" =>
          /\ last.arg.info.resolution = OneEighth => last.arg.raw.dwRes = U32(0, 125)
          /\ \A r \in SensorSamples(BaseTemperature, TemperatureScaled) :
                TemperatureInfoFrom(r).val = last.arg.info =>
                    \A k \in 1..Len(TemperatureScaled) :
                        last.arg.raw[TemperatureScaled[k][1]] = r[TemperatureScaled[k][1]]

\* C13: at most one library context is live at a time, and
\* CgosLibUninitialize is never called while a board handle opened through
\* the interface is still open.
C13_ContextIsLastTornDown ==
    /\ Cardinality(libs) <= 1
    /\ last.fn = "CgosLibUninitialize" => table = {}

\* C14: Board::info carries each raw field into the BoardInfo field of the
\* same meaning: system_bios_revision is the raw system-BIOS revision,
\* bios_interface_build_revision the raw BIOS-interface build revision,
\* classes and primary_class the raw class masks cut to the declared flags,
\* manufacturer_sub, repair_counter and both dates their raw counterparts.
C14_InfoFieldsCarried ==
    (last.op = "Board::info" /\ last.res.tag = "Ok") =>
        LET raw == last.arg
            info == last.res.val
        IN  /\ info.system_bios_revision = raw.wSystemBiosRevision
            /\ info.bios_interface_build_revision = raw.wBiosInterfaceBuildRevision
            /\ info.classes = And32(raw.dwClasses, U32(0, 7))
            /\ info.primary_class = And32(raw.dwPrimaryClass, U32(0, 7))
            /\ info.manufacturer_sub = raw.dwManufacturer
            /\ info.repair_counter = raw.dwRepairCounter
            /\ info.manufacturing_date.year = raw.stManufacturingDate.wYear
            /\ info.manufacturing_date.millisecond = raw.stManufacturingDate.wMilliseconds
            /\ info.last_repair_date.year = raw.stLastRepairDate.wYear
            /\ info.last_repair_date.millisecond = raw.stLastRepairDate.wMilliseconds

\* a raw field read as a signed 32-bit number: its sign and its magnitude
\* (the magnitude 2^31 of the lowest number as 2^23 * 2^8, see Round24)
RawNegative(raw) == raw[2] >= 2^15
RawMagnitude(raw) ==
    IF ~RawNegative(raw) THEN raw[2] * Limb + raw[1]
    ELSE IF raw = U32(2^15, 0) THEN 0 - 1
    ELSE IF raw[1] = 0 THEN (Limb - raw[2]) * Limb
    ELSE (Limb - 1 - raw[2]) * Limb + (Limb - raw[1])

\* the number v of the form of an i32 (sign and magnitude) is the number n
SignedIs(v, neg, n) == v = [neg |-> neg, mag |-> <<n % Limb, n \div Limb>>]

\* the f32 x is the integer n, with the given sign
FloatIs(x, neg, n) ==
    /\ x.neg = neg
    /\ x.exp <= 0
    /\ x.man = n * 2^(0 - x.exp)

\* n > 0 rounded to 24 significant bits, ties to even: <<M, s>> for M * 2^s
Round24(n) ==
    IF n < 2^24 THEN <<n, 0>>
    ELSE LET s == CHOOSE k \in 1..7 : n \div 2^k < 2^24 /\ n \div 2^(k - 1) >= 2^24
             q == n \div 2^s
             r == n % 2^s
             M == IF 2 * r > 2^s \/ (2 * r = 2^s /\ q % 2 = 1) THEN q + 1 ELSE q
         IN  IF M = 2^24 THEN <<2^23, s + 1>> ELSE <<M, s>>

\* the f32 x is the f32 nearest to raw / 1000, raw read as a signed 32-bit
\* number and cast to f32 first: with that cast M * 2^s and x = man * 2^exp,
\* | 1000 * man * 2^(exp - s) - M | <= 2^(exp - s) * 500
NearestThousandth(x, raw) ==
    IF raw = U32(0, 0) THEN x.man = 0
    ELSE LET c == IF RawMagnitude(raw) < 0 THEN <<2^23, 8>>
                  ELSE Round24(RawMagnitude(raw))
             e == x.exp - c[2]
         IN  /\ x.neg = RawNegative(raw)
             /\ x.man >= 2^23 /\ x.man < 2^24
             /\ e <= 0 - 3
             /\ 125 * x.man - c[1] * 2^(0 - e - 3) \in (0 - 62)..62

\* C15 as claimed: for Temperature and for Fan, info() reports minimum,
\* maximum, alarm high/low and hysteresis high/low as the raw value read as a
\* signed 32-bit number of milli-units and divided by 1000: 45000 as 45,
\* 0xFFFFFC18 as -1.
C15_BothKindsScaled ==
    /\ (last.op = "Temperature::info" /\ last.res.tag = "Ok") =>
          \A k \in 2..Len(TemperatureScaled) :
              LET raw == last.arg[TemperatureScaled[k][1]]
                  x == last.res.val[TemperatureScaled[k][2]]
              IN  /\ NearestThousandth(x, raw)
                  /\ raw = U32(0, 45000) => FloatIs(x, FALSE, 45)
                  /\ raw = U32(65535, 64536) => FloatIs(x, TRUE, 1)
    /\ (last.op = "Fan::info" /\ last.res.tag = "Ok") =>
          \A k \in 3..8 :
              LET raw == last.arg[FanSigned[k][1]]
                  v == last.res.val[FanSigned[k][2]]
              IN  /\ raw = U32(0, 45000) => SignedIs(v, FALSE, 45)
                  /\ raw = U32(65535, 64536) => SignedIs(v, TRUE, 1)

\* C15 as amended: Temperature::info reports these fields as the f32 nearest
\* to the thousandth of the raw value read as a signed 32-bit number (45000
\* as 45, 0xFFFFFC18 as -1); Fan::info reports them as the raw value read as
\* a signed 32-bit number, not divided (45000 as 45000, 0xFFFFFC18 as -1000).
C15_TemperatureScaledFanRaw ==
    /\ (last.op = "Temperature::info" /\ last.res.tag = "Ok") =>
          \A k \in 2..Len(TemperatureScaled) :
              LET raw == last.arg[TemperatureScaled[k][1]]
                  x == last.res.val[TemperatureScaled[k][2]]
              IN  /\ NearestThousandth(x, raw)
                  /\ raw = U32(0, 45000) => FloatIs(x, FALSE, 45)
                  /\ raw = U32(65535, 64536) => FloatIs(x, TRUE, 1)
    /\ (last.op = "Fan::info" /\ last.res.tag = "Ok") =>
          \A k \in 3..8 :
              LET raw == last.arg[FanSigned[k][1]]
                  v == last.res.val[FanSigned[k][2]]
              IN  /\ v.neg = RawNegative(raw)
                  /\ RawMagnitude(raw) >= 0 =>
                        SignedIs(v, RawNegative(raw), RawMagnitude(raw))
                  /\ raw = U32(0, 45000) => SignedIs(v, FALSE, 45000)
                  /\ raw = U32(65535, 64536) => SignedIs(v, TRUE, 1000)

\* a fan reported the raw minimum 0xFFFFFC18 as -1000
C15_FanMinimumUnscaled ==
    /\ last.op = "Fan::info"
    /\ last.res.tag = "Ok"
    /\ last.arg.dwMin = U32(65535, 64536)
    /\ last.res.val.minimum = [neg |-> TRUE, mag |-> <<1000, 0>>]

\* C16: boot_count and running_time issue the same boot-counter query; for a
\* raw counter c boot_count returns c and running_time exactly c * 3600
\* seconds, without wrap-around up to c = 2^32 - 1 (c = hi * 2^16 + lo, so
\* c * 3600 = lo * 3600 + hi * 3600 * 2^16); each panics when the query fails.
C16_BootCounterHours ==
    /\ last.op \in {"Board::boot_count", "Board::running_time"} =>
          /\ last.fn = "CgosBoardGetBootCounter"
          /\ last.ret = 0 <=> last.res.tag = "Panic"
    /\ (last.op = "Board::boot_count" /\ last.ret # 0) =>
          last.res.val = Usize(0, 0, last.arg[2], last.arg[1])
    /\ (last.op = "Board::running_time" /\ last.ret # 0) =>
          LET low == last.arg[1] * 3600
              high == last.arg[2] * 3600 + low \div Limb
          IN  /\ last.res.val.nanos = 0
              /\ last.res.val.secs = <<low % Limb, high % Limb, high \div Limb, 0>>

\* the counter 2^32 - 1 came back as 15461882261400 seconds
C16_LongestRunningTime ==
    /\ last.op = "Board::running_time"
    /\ last.arg = U32(65535, 65535)
    /\ last.res.tag = "Ok"
    /\ last.res.val.secs = <<61936, 65535, 3599, 0>>

====
